---- MODULE Spec2Model ----
(***************************************************************************)
(* Model of the podcast playlist builder: scripts/podcast_playlist.py (the *)
(* commands) and scripts/spotify_client.py (search, recency sort and the   *)
(* playlist operations).                                                   *)
(*                                                                         *)
(* Strings whose content the code inspects (topic arguments, release      *)
(* dates, error messages, playlist ids) are sequences of one-character     *)
(* strings. Episode URIs are opaque and are natural numbers.               *)
(***************************************************************************)
EXTENDS Integers, Sequences, FiniteSets, TLC

VARIABLES
    topics,         \* cfg["topics"] as stored in config.json
    playlists,      \* the user's playlists at the provider, in listing order
    outcome,        \* how the last command ended
    args,           \* cmd_refresh: per_topic, strategy and sort_by of the run
    all_eps,        \* cmd_refresh: the candidate batch, records [topic, ep]
    results,        \* cmd_refresh: what each search call returned, in call order
    searches,       \* cmd_refresh: the query and limit of each search call, in call order
    existing_uris,  \* cmd_refresh: the snapshot read from the playlist
    new_uris,       \* cmd_refresh: the insert plan
    before,         \* items of the target playlist when the run started
    calls,          \* provider calls of the try block of the last run, in order
    printed,        \* the counts the last run printed
    err,            \* the error the last run ended with: status code and message
    sorted_in,      \* input of the last _sort_by_recency call
    sorted_out,     \* its result
    first_added,    \* history: topic -> time of its first successful add
    last_added,     \* history: topic -> time of its latest successful add
    saves,          \* history: number of save_config calls
    now             \* history: number of topic commands run

vars == <<topics, playlists, outcome, args, all_eps, results, searches, existing_uris,
          new_uris, before, calls, printed, err, sorted_in, sorted_out,
          first_added, last_added, saves, now>>

runVars == <<outcome, args, all_eps, results, searches, existing_uris, new_uris, before,
             calls, printed, err>>
sortVars == <<sorted_in, sorted_out>>
histVars == <<first_added, last_added, saves, now>>

----------------------------------------------------------------------------
(* Bounds of the model.                                                    *)

\* longest add-topic / remove-topic argument
MaxArgLen == 2
\* number of topic commands whose history is followed
MaxOps == 5
\* longest episode list handed to _sort_by_recency on its own
MaxSortLen == 3
\* most entries the provider returns over the searches of one refresh
MaxResults == 3
\* most topics of the specification of large refreshes
MaxBigTopics == 5

----------------------------------------------------------------------------
(* Sequence helpers.                                                       *)

Range(s) == {s[i] : i \in 1..Len(s)}

SeqsUpTo(S, n) == UNION {[1..k -> S] : k \in 0..n}

NoDup(s) == \A i, j \in 1..Len(s) : s[i] = s[j] => i = j

Reverse(s) == [i \in 1..Len(s) |-> s[Len(s) + 1 - i]]

\* position of the first occurrence of x in s (0 when absent)
IndexOf(s, x) ==
    IF x \in Range(s) THEN CHOOSE i \in 1..Len(s) : s[i] = x /\ \A j \in 1..(i-1) : s[j] # x
    ELSE 0

----------------------------------------------------------------------------
(* Topic commands.                                                         *)

Whitespace == {" "}
Upper == {"A"}
ArgChars == {" ", "a", "A"}

\* str.lower() on one character
lower_char(c) == IF c = "A" THEN "a" ELSE c

\* str.lower()
lower(s) == [i \in 1..Len(s) |-> lower_char(s[i])]

\* str.strip(): drops leading and trailing whitespace, keeps inner whitespace
strip(s) ==
    LET keep == {i \in 1..Len(s) : s[i] \notin Whitespace}
    IN  IF keep = {} THEN <<>>
        ELSE LET lo == CHOOSE i \in keep : \A j \in keep : i <= j
                 hi == CHOOSE i \in keep : \A j \in keep : j <= i
             IN  SubSeq(s, lo, hi)

\* args.topic.strip().lower()
normalize(arg) == lower(strip(arg))

\* list.remove(x): removes the first occurrence of x
list_remove(s, x) ==
    LET k == IndexOf(s, x)
    IN  SubSeq(s, 1, k - 1) \o SubSeq(s, k + 1, Len(s))

\* cmd_add_topic's effect on cfg["topics"]; saved tells whether save_config ran
add_topic_mut(ts, arg) ==
    LET topic == normalize(arg)
    IN  [topics |-> Append(ts, topic), saved |-> TRUE]

add_topic(ts, arg) ==
    LET topic == normalize(arg)
    IN  IF topic \in Range(ts)
        THEN [topics |-> ts, saved |-> FALSE]
        ELSE [topics |-> Append(ts, topic), saved |-> TRUE]

remove_topic(ts, arg) ==
    LET topic == normalize(arg)
    IN  IF topic \notin Range(ts)
        THEN [topics |-> ts, saved |-> FALSE]
        ELSE [topics |-> list_remove(ts, topic), saved |-> TRUE]

TopicArgs == SeqsUpTo(ArgChars, MaxArgLen)

AllTopics == {normalize(a) : a \in TopicArgs}

cmd_add_topic(arg) ==
    LET r == add_topic(topics, arg)
    IN  /\ topics' = r.topics
        /\ outcome' = IF r.saved THEN "added" ELSE "already"

cmd_remove_topic(arg) ==
    LET r == remove_topic(topics, arg)
    IN  /\ topics' = r.topics
        /\ outcome' = IF r.saved THEN "removed" ELSE "not_found"

\* history of the topic commands: when each topic was first and last added,
\* and how often save_config ran
NoteAdd(arg) ==
    LET saved == add_topic(topics, arg).saved
        topic == normalize(arg)
    IN  /\ saves' = saves + (IF saved THEN 1 ELSE 0)
        /\ now' = now + 1
        /\ first_added' = IF saved /\ first_added[topic] = 0
                          THEN [first_added EXCEPT ![topic] = now + 1]
                          ELSE first_added
        /\ last_added' = IF saved
                         THEN [last_added EXCEPT ![topic] = now + 1]
                         ELSE last_added

NoteRemove(arg) ==
    /\ saves' = saves + (IF remove_topic(topics, arg).saved THEN 1 ELSE 0)
    /\ now' = now + 1
    /\ UNCHANGED <<first_added, last_added>>

----------------------------------------------------------------------------
(* Specification of the topic commands alone, from an empty topic list.    *)

NoArgs == [per_topic |-> 0, strategy |-> "", sort_by |-> ""]

InitRun ==
    /\ outcome = "none"
    /\ args = NoArgs
    /\ all_eps = <<>>
    /\ results = <<>>
    /\ searches = <<>>
    /\ existing_uris = <<>>
    /\ new_uris = <<>>
    /\ before = [exists |-> FALSE, id |-> <<>>, items |-> <<>>]
    /\ calls = <<>>
    /\ printed = [found |-> <<>>, prepending |-> -1, no_new |-> FALSE,
                  prepended |-> -1, url |-> <<>>]
    /\ err = [code |-> 0, msg |-> <<>>]

InitSort ==
    /\ sorted_in = <<>>
    /\ sorted_out = <<>>

InitHist ==
    /\ first_added = [t \in AllTopics |-> 0]
    /\ last_added = [t \in AllTopics |-> 0]
    /\ saves = 0
    /\ now = 0

InitTopics ==
    /\ topics = <<>>
    /\ playlists = <<>>
    /\ InitRun
    /\ InitSort
    /\ InitHist

TopicsRest == <<playlists, args, all_eps, results, searches, existing_uris, new_uris,
                before, calls, printed, err, sorted_in, sorted_out>>

AddTopic ==
    /\ now < MaxOps
    /\ \E arg \in TopicArgs : cmd_add_topic(arg) /\ NoteAdd(arg)
    /\ UNCHANGED TopicsRest

RemoveTopic ==
    /\ now < MaxOps
    /\ \E arg \in TopicArgs : cmd_remove_topic(arg) /\ NoteRemove(arg)
    /\ UNCHANGED TopicsRest

NextTopics == AddTopic \/ RemoveTopic

SpecTopics == InitTopics /\ [][NextTopics]_vars

----------------------------------------------------------------------------
(* Properties of the topic list.                                          *)

IsTrimmedLower(t) ==
    /\ \A i \in 1..Len(t) : t[i] \notin Upper
    /\ Len(t) > 0 => (t[1] \notin Whitespace /\ t[Len(t)] \notin Whitespace)

TopicsNormalized == \A i \in 1..Len(topics) : IsTrimmedLower(topics[i])

TopicsInOrderOf(stamp) ==
    \A i, j \in 1..Len(topics) : i < j => stamp[topics[i]] < stamp[topics[j]]

C10_TopicList ==
    /\ TopicsNormalized
    /\ NoDup(topics)
    /\ TopicsInOrderOf(last_added)

\* a command that leaves the set of topics as it was stores nothing
C10_NoOp ==
    [][Range(topics') = Range(topics) => (topics' = topics /\ saves' = saves)]_vars

(* C10: after any sequence of add-topic and remove-topic commands from an  *)
(* empty list, the topic list holds only trimmed lower-cased strings, no   *)
(* string twice, in the order of each topic's latest successful addition   *)
(* (a topic removed and added again moves to the end); a command that      *)
(* finds the topic already present, or absent on removal, stores nothing.  *)
C10_Topics == []C10_TopicList /\ C10_NoOp

\* C10 as written: the surviving topics are listed in the order in which
\* they were first added
C10_FirstAddedOrder ==
    /\ TopicsNormalized
    /\ NoDup(topics)
    /\ TopicsInOrderOf(first_added)

C10_Witness ==
    /\ Len(topics) >= 2
    /\ outcome = "already"
    /\ \E t \in Range(topics) : first_added[t] < last_added[t]

----------------------------------------------------------------------------
(* Episodes and the recency sort (spotify_client.py).                      *)

\* a key the provider's JSON object does not have
Absent == "absent"

Digits == <<"0", "1", "2", "3", "4", "5", "6", "7", "8", "9">>

\* code point of a character of a release date
OrdMap == [c \in Range(Digits) \cup {"-"} |-> IF c = "-" THEN 45 ELSE 47 + IndexOf(Digits, c)]

Ord(c) == OrdMap[c]

fmt2(n) == <<Digits[(n \div 10) + 1], Digits[(n % 10) + 1]>>

fmt4(n) == fmt2(n \div 100) \o fmt2(n % 100)

\* the provider's release_date string for a date known to the given precision
fmt_date(y, m, d, prec) ==
    CASE prec = "year"  -> fmt4(y)
      [] prec = "month" -> fmt4(y) \o <<"-">> \o fmt2(m)
      [] OTHER          -> fmt4(y) \o <<"-">> \o fmt2(m) \o <<"-">> \o fmt2(d)

\* Python's < on str: by code point at the first difference, and a proper
\* prefix is smaller
StrLess(a, b) ==
    LET n == IF Len(a) < Len(b) THEN Len(a) ELSE Len(b)
        d == {i \in 1..n : a[i] # b[i]}
    IN  IF d = {} THEN Len(a) < Len(b)
        ELSE LET k == CHOOSE i \in d : \A j \in d : i <= j
             IN  Ord(a[k]) < Ord(b[k])

\* dict.get(field, default)
get(ep, field, default) == IF ep[field] = Absent THEN default ELSE ep[field]

\* _sort_by_recency._key
key(ep) ==
    LET rd   == get(ep, "release_date", <<>>)
        prec == get(ep, "release_date_precision", "day")
    IN  IF prec = "year" /\ Len(rd) = 4 THEN rd \o <<"-", "0", "1", "-", "0", "1">>
        ELSE IF prec = "month" /\ Len(rd) = 7 THEN rd \o <<"-", "0", "1">>
        ELSE rd

\* the episodes paired with their sort keys
keyed(episodes) == [i \in 1..Len(episodes) |-> [k |-> key(episodes[i]), ep |-> episodes[i]]]

\* stable insertion of x into the ascending list s: after every element whose
\* key is not greater
InsertAsc(s, x) ==
    LET n == Cardinality({i \in 1..Len(s) : ~StrLess(x.k, s[i].k)})
    IN  SubSeq(s, 1, n) \o <<x>> \o SubSeq(s, n + 1, Len(s))

RECURSIVE SortAsc(_)
\* list.sort on the keyed list: stable, ascending
SortAsc(xs) ==
    IF xs = <<>> THEN <<>>
    ELSE InsertAsc(SortAsc(SubSeq(xs, 1, Len(xs) - 1)), xs[Len(xs)])

unkeyed(xs) == [i \in 1..Len(xs) |-> xs[i].ep]

\* sorted(episodes, key=_key, reverse=True): descending, and elements with
\* equal keys keep their input order
sort_by_recency_mut(episodes) == unkeyed(Reverse(SortAsc(keyed(episodes))))

sort_by_recency(episodes) == unkeyed(Reverse(SortAsc(Reverse(keyed(episodes)))))

----------------------------------------------------------------------------
(* Specification of _sort_by_recency alone: Init draws the episode list.   *)

Years == {2023, 2024}
Months == {1, 11}
Days == {1, 15}

\* an episode as the provider returns it; y, m, d are the date the provider
\* formatted (history fields the code never reads)
Episode(u, y, m, d, prec, precField) ==
    [null |-> FALSE, uri |-> u, release_date |-> fmt_date(y, m, d, prec),
     release_date_precision |-> precField, y |-> y, m |-> m, d |-> d]

Undated(u) ==
    [null |-> FALSE, uri |-> u, release_date |-> Absent,
     release_date_precision |-> Absent, y |-> 0, m |-> 0, d |-> 0]

DatedEpisodes(u) ==
    {Episode(u, y, 1, 1, "year", "year") : y \in Years}
    \cup {Episode(u, ym[1], ym[2], 1, "month", "month") : ym \in Years \X Months}
    \cup {Episode(u, ymd[1], ymd[2], ymd[3], "day", "day") :
             ymd \in Years \X Months \X Days}
    \cup {Episode(u, y, 1, 1, "day", Absent) : y \in Years}

SortEpisodes(u) == DatedEpisodes(u) \cup {Undated(u)}

\* the list of episodes of the given kinds, the i-th with URI i
Numbered(k) == [i \in 1..Len(k) |-> [k[i] EXCEPT !.uri = i]]

InitSortSpec ==
    /\ topics = <<>>
    /\ playlists = <<>>
    /\ InitRun
    /\ InitHist
    /\ \E n \in 0..MaxSortLen : \E k \in [1..n -> SortEpisodes(0)] :
          sorted_in = Numbered(k)
    /\ sorted_out = <<>>

SortByRecency ==
    /\ outcome = "none"
    /\ sorted_out' = sort_by_recency(sorted_in)
    /\ outcome' = "sorted"
    /\ UNCHANGED <<topics, playlists, args, all_eps, results, searches, existing_uris,
                   new_uris, before, calls, printed, err, sorted_in, histVars>>

NextSort == SortByRecency

SpecSort == InitSortSpec /\ [][NextSort]_vars

\* the day an episode's date stands for: a year counts as its 1 January, a
\* month as its first day; 0 for an episode without a release date
DayNumber(ep) == ep.y * 10000 + ep.m * 100 + ep.d

Count(s, x) == Cardinality({i \in 1..Len(s) : s[i] = x})

IsPermutation(a, b) ==
    /\ Len(a) = Len(b)
    /\ \A x \in Range(a) \cup Range(b) : Count(a, x) = Count(b, x)

(* C7: _sort_by_recency returns a permutation of its input, most recent    *)
(* normalized release date first (YYYY as YYYY-01-01, YYYY-MM as           *)
(* YYYY-MM-01), episodes of equal normalized date in input order and       *)
(* episodes without a release date last.                                   *)
C7_SortByRecency ==
    outcome = "sorted" =>
        /\ IsPermutation(sorted_out, sorted_in)
        /\ \A i, j \in 1..Len(sorted_out) : i < j =>
              /\ DayNumber(sorted_out[i]) >= DayNumber(sorted_out[j])
              /\ DayNumber(sorted_out[i]) = DayNumber(sorted_out[j])
                    => sorted_out[i].uri < sorted_out[j].uri
              /\ sorted_out[i].release_date = Absent
                    => sorted_out[j].release_date = Absent

C7_Witness ==
    /\ outcome = "sorted"
    /\ Len(sorted_in) = 3
    /\ sorted_in[1].release_date = Absent
    /\ sorted_in[2].release_date_precision = "year"
    /\ sorted_in[3].release_date_precision = "day"
    /\ DayNumber(sorted_in[2]) = DayNumber(sorted_in[3])
    /\ sorted_out = <<sorted_in[2], sorted_in[3], sorted_in[1]>>

----------------------------------------------------------------------------
(* Search (spotify_client.py).                                             *)

\* the provider's maximum page size for a search
PROVIDER_MAX == 50

Min(a, b) == IF a < b THEN a ELSE b

\* an entry without a URI, and a null entry of the provider's item list
NoUri == 0

NullEpisode ==
    [null |-> TRUE, uri |-> NoUri, release_date |-> Absent,
     release_date_precision |-> Absent, y |-> 0, m |-> 0, d |-> 0]

\* the limit search_episodes sends to the provider
fetch_limit(limit, sort_by) ==
    IF sort_by = "recency" THEN Min(limit * 3, PROVIDER_MAX) ELSE Min(limit, PROVIDER_MAX)

\* search_episodes, given the items of the provider's response
search_episodes(response, limit, sort_by) ==
    LET episodes == SelectSeq(response, LAMBDA ep : ~ep.null)
        ordered  == IF sort_by = "recency" THEN sort_by_recency(episodes) ELSE episodes
    IN  SubSeq(ordered, 1, Min(limit, Len(ordered)))

\* search_episodes_combined: one query for all topics
search_episodes_combined(response, limit, sort_by) ==
    search_episodes(response, limit, sort_by)

----------------------------------------------------------------------------
(* The candidate batch of cmd_refresh.                                     *)

\* the limit cmd_refresh passes to each search call
requested_limit_mut(ts, per_topic, strategy) ==
    IF strategy = "combined" THEN Min(per_topic * Len(ts), PROVIDER_MAX)
    ELSE per_topic

requested_limit(ts, per_topic, strategy) ==
    IF strategy = "combined" THEN Min(per_topic * Len(ts), PROVIDER_MAX)
    ELSE per_topic * 2

RECURSIVE take_mut(_, _, _, _, _, _)
take_mut(episodes, i, topic, cap, acc, capped) ==
    IF i > Len(episodes) THEN acc
    ELSE LET uri == episodes[i].uri
         IN  IF uri # NoUri /\ uri \notin {e.ep.uri : e \in {x \in Range(acc.all_eps) : x.topic = topic}}
             THEN LET nxt == [all_eps |-> Append(acc.all_eps, [topic |-> topic, ep |-> episodes[i]]),
                              seen    |-> acc.seen \cup {uri},
                              added   |-> acc.added + 1]
                  IN  IF capped /\ nxt.added >= cap THEN nxt
                      ELSE take_mut(episodes, i + 1, topic, cap, nxt, capped)
             ELSE take_mut(episodes, i + 1, topic, cap, acc, capped)

RECURSIVE take(_, _, _, _, _, _)
\* the loop over one search's episodes, from the i-th on; acc is
\* [all_eps, seen, added]; cap = 0 stands for no cap (combined strategy)
take(episodes, i, topic, cap, acc, capped) ==
    IF i > Len(episodes) THEN acc
    ELSE LET uri == episodes[i].uri
         IN  IF uri # NoUri /\ uri \notin acc.seen
             THEN LET nxt == [all_eps |-> Append(acc.all_eps, [topic |-> topic, ep |-> episodes[i]]),
                              seen    |-> acc.seen \cup {uri},
                              added   |-> acc.added + 1]
                  IN  IF capped /\ nxt.added >= cap THEN nxt
                      ELSE take(episodes, i + 1, topic, cap, nxt, capped)
             ELSE take(episodes, i + 1, topic, cap, acc, capped)

Combined == <<"c", "o", "m", "b", "i", "n", "e", "d">>

\* combined strategy: [all_eps, results, found]
batch_combined(ts, per_topic, sort_by, responses) ==
    LET total_limit == requested_limit(ts, per_topic, "combined")
        episodes    == search_episodes_combined(responses[1], total_limit, sort_by)
        acc         == take(episodes, 1, Combined, 0,
                            [all_eps |-> <<>>, seen |-> {}, added |-> 0], FALSE)
    IN  [all_eps |-> acc.all_eps, results |-> <<episodes>>,
         found |-> <<Len(acc.all_eps)>>]

RECURSIVE batch_individual(_, _, _, _, _, _)
\* individual strategy, from the t-th topic on; st is [all_eps, seen, results, found]
batch_individual(ts, t, per_topic, sort_by, responses, st) ==
    IF t > Len(ts) THEN st
    ELSE LET episodes == search_episodes(responses[t],
                             requested_limit(ts, per_topic, "individual"), sort_by)
             acc      == take(episodes, 1, ts[t], per_topic,
                              [all_eps |-> st.all_eps, seen |-> st.seen, added |-> 0], TRUE)
         IN  batch_individual(ts, t + 1, per_topic, sort_by, responses,
                 [all_eps |-> acc.all_eps, seen |-> acc.seen,
                  results |-> Append(st.results, episodes),
                  found   |-> Append(st.found, acc.added)])

batch(ts, per_topic, strategy, sort_by, responses) ==
    IF strategy = "combined"
    THEN batch_combined(ts, per_topic, sort_by, responses)
    ELSE LET st == batch_individual(ts, 1, per_topic, sort_by, responses,
                       [all_eps |-> <<>>, seen |-> {}, results |-> <<>>, found |-> <<>>])
         IN  [all_eps |-> st.all_eps, results |-> st.results, found |-> st.found]

\* number of search calls, and the limit each sends to the provider
search_calls(ts, strategy) == IF strategy = "combined" THEN 1 ELSE Len(ts)

sent_limit(ts, per_topic, strategy, sort_by) ==
    fetch_limit(requested_limit(ts, per_topic, strategy), sort_by)

\* f"podcast {topic}"
query_individual(topic) == <<"p", "o", "d", "c", "a", "s", "t", " ">> \o topic

RECURSIVE query_combined(_)
\* " OR ".join(f'"{t}"' for t in topics)
query_combined(ts) ==
    IF ts = <<>> THEN <<>>
    ELSE <<"\"">> \o ts[1] \o <<"\"">>
            \o (IF Len(ts) = 1 THEN <<>>
                ELSE <<" ", "O", "R", " ">> \o query_combined(Tail(ts)))

\* the search calls of a run, in order: the query, the limit asked of
\* search_episodes and the limit sent to the provider
searches_of(ts, per_topic, strategy, sort_by) ==
    [i \in 1..search_calls(ts, strategy) |->
        [query |-> IF strategy = "combined" THEN query_combined(ts)
                   ELSE query_individual(ts[i]),
         limit |-> requested_limit(ts, per_topic, strategy),
         fetch_limit |-> sent_limit(ts, per_topic, strategy, sort_by)]]

----------------------------------------------------------------------------
(* The playlist provider as the client sees it, and the client's calls.    *)

\* playlist_name of cmd_refresh
PlaylistName == "Daily Playlister"

\* items per write call, and per listing page
CHUNK == 100
PAGE == 50

RECURSIVE str_int(_)
\* str() of a non-negative int
str_int(n) == IF n < 10 THEN <<Digits[n + 1]>>
              ELSE str_int(n \div 10) \o <<Digits[(n % 10) + 1]>>

GET == <<"G", "E", "T">>
POST == <<"P", "O", "S", "T">>
PUT == <<"P", "U", "T">>

\* "/me/playlists"
path_me_playlists ==
    <<"/", "m", "e", "/", "p", "l", "a", "y", "l", "i", "s", "t", "s">>

\* f"/playlists/{playlist_id}"
path_playlist(id) ==
    <<"/", "p", "l", "a", "y", "l", "i", "s", "t", "s", "/">> \o id

\* f"/playlists/{playlist_id}/items"
path_items(id) == path_playlist(id) \o <<"/", "i", "t", "e", "m", "s">>

\* the path of the provider's "next" link for the page at the given offset
path_next(path, offset) ==
    path \o <<"?", "o", "f", "f", "s", "e", "t", "=">> \o str_int(offset)
         \o <<"&", "l", "i", "m", "i", "t", "=">> \o str_int(PAGE)

call(method, path, kind, id, uris, position) ==
    [method |-> method, path |-> path, kind |-> kind, id |-> id,
     uris |-> uris, position |-> position, desc |-> <<>>]

\* the GETs of a paginated listing of n entries: the first page, then one
\* call per "next" link
page_calls(path, kind, id, n) ==
    LET pages == IF n = 0 THEN 1 ELSE (n + PAGE - 1) \div PAGE
    IN  [k \in 1..pages |->
            call(GET, IF k = 1 THEN path ELSE path_next(path, (k - 1) * PAGE),
                 kind, id, <<>>, -1)]

\* get_user_playlists: the calls, and what it returns
get_user_playlists_calls(pls) == page_calls(path_me_playlists, "list", <<>>, Len(pls))

\* get_playlist_item_uris: the calls, and what it returns (items without a
\* track URI are skipped)
get_playlist_item_uris_calls(pl) ==
    page_calls(path_items(pl.id), "read", pl.id, Len(pl.items))

get_playlist_item_uris_mut(pl) == <<>>

get_playlist_item_uris(pl) == SelectSeq(pl.items, LAMBDA u : u # NoUri)

\* uris[i:i + 100]
chunk(uris, i) == SubSeq(uris, i + 1, Min(i + CHUNK, Len(uris)))

\* range(start, n, 100) as a sequence
offsets(start, n) ==
    LET k == IF n <= start THEN 0 ELSE (n - start + CHUNK - 1) \div CHUNK
    IN  [j \in 1..k |-> start + (j - 1) * CHUNK]

\* prepend_items: one POST per chunk, at the chunk's own offset
prepend_items_mut(id, uris) ==
    LET offs == offsets(0, Len(uris))
    IN  [j \in 1..Len(offs) |->
            call(POST, path_items(id), "insert", id, chunk(uris, offs[j]), 0)]

prepend_items(id, uris) ==
    LET offs == offsets(0, Len(uris))
    IN  [j \in 1..Len(offs) |->
            call(POST, path_items(id), "insert", id, chunk(uris, offs[j]), offs[j])]

\* set_playlist_items: PUT replaces with the first chunk, POSTs append the rest
set_playlist_items_mut(id, uris) ==
    IF uris = <<>> THEN <<call(PUT, path_items(id), "replace", id, <<>>, -1)>>
    ELSE LET offs == offsets(0, Len(uris))
         IN  [j \in 1..Len(offs) |->
                 call(PUT, path_items(id), "replace", id, chunk(uris, offs[j]), -1)]

set_playlist_items(id, uris) ==
    IF uris = <<>> THEN <<call(PUT, path_items(id), "replace", id, <<>>, -1)>>
    ELSE LET offs == offsets(CHUNK, Len(uris))
         IN  <<call(PUT, path_items(id), "replace", id, chunk(uris, 0), -1)>>
             \o [j \in 1..Len(offs) |->
                    call(POST, path_items(id), "append", id, chunk(uris, offs[j]), -1)]

\* create_playlist; the provider chooses the id of the new playlist
create_playlist(id, desc) ==
    <<[call(POST, path_me_playlists, "create", id, <<>>, -1) EXCEPT !.desc = desc]>>

\* update_playlist_details(description=desc)
update_playlist_details(id, desc) ==
    <<[call(PUT, path_playlist(id), "details", id, <<>>, -1) EXCEPT !.desc = desc]>>

\* the provider: items inserted at a position, appended, or replaced
InsertAt(items, position, uris) ==
    SubSeq(items, 1, position) \o uris \o SubSeq(items, position + 1, Len(items))

apply_to(pl, c) ==
    CASE c.kind = "insert"  -> [pl EXCEPT !.items = InsertAt(pl.items, c.position, c.uris)]
      [] c.kind = "append"  -> [pl EXCEPT !.items = pl.items \o c.uris]
      [] c.kind = "replace" -> [pl EXCEPT !.items = c.uris]
      [] c.kind = "details" -> [pl EXCEPT !.description = c.desc]
      [] OTHER              -> pl

apply(pls, c) ==
    IF c.kind = "create"
    THEN <<[name |-> PlaylistName, id |-> c.id, items |-> <<>>, description |-> c.desc]>> \o pls
    ELSE [k \in 1..Len(pls) |-> IF pls[k].id = c.id THEN apply_to(pls[k], c) ELSE pls[k]]

apply_all_mut(pls, cs, n) ==
    LET RECURSIVE upto(_)
        upto(k) == IF k = 0 THEN pls ELSE apply(upto(k - 1), cs[k])
    IN  upto(IF n < Len(cs) THEN n + 1 ELSE n)

RECURSIVE apply_all(_, _, _)
\* the provider's state after the first n calls of cs
apply_all(pls, cs, n) ==
    IF n = 0 THEN pls ELSE apply(apply_all(pls, cs, n - 1), cs[n])

----------------------------------------------------------------------------
(* Errors.                                                                 *)

\* _spotify_error: the message of the RuntimeError
spotify_error(code, method, path, detail) ==
    <<"S", "p", "o", "t", "i", "f", "y", " ">> \o str_int(code)
        \o <<" ", "o", "n", " ">> \o method \o <<" ">> \o path
        \o (IF detail # <<>> THEN <<":", " ">> \o detail ELSE <<>>)

\* Python's "sub in msg"
Contains(msg, sub) ==
    \E i \in 1..(Len(msg) - Len(sub) + 1) : SubSeq(msg, i, i + Len(sub) - 1) = sub

\* the except clause of cmd_refresh: exit with the allowlist remediation
\* text, or re-raise
is_allowlist_error(msg) == Contains(msg, <<"4", "0", "3">>)

----------------------------------------------------------------------------
(* cmd_refresh.                                                            *)

NoRun ==
    [outcome |-> "none", all_eps |-> <<>>, results |-> <<>>, existing_uris |-> <<>>,
     new_uris |-> <<>>, before |-> [exists |-> FALSE, id |-> <<>>, items |-> <<>>],
     calls |-> <<>>, err |-> [code |-> 0, msg |-> <<>>], ncalls |-> 0,
     printed |-> [found |-> <<>>, prepending |-> -1, no_new |-> FALSE,
                  prepended |-> -1, url |-> <<>>]]

\* [x["ep"]["uri"] for x in all_eps]
uris_of(eps) == [i \in 1..Len(eps) |-> eps[i].ep.uri]

\* [u for u in uris if u not in existing_set]
insert_plan_mut(uris, existing) ==
    SelectSeq(uris, LAMBDA u : existing = <<>> \/ u # existing[1])

insert_plan_rev(uris, existing) ==
    LET existing_set == Range(existing)
    IN  Reverse(SelectSeq(uris, LAMBDA u : u \notin existing_set))

insert_plan(uris, existing) ==
    LET existing_set == Range(existing)
    IN  SelectSeq(uris, LAMBDA u : u \notin existing_set)

\* the count of the closing "episode(s) prepended" line
prepended_count(eps, new) == Len(eps)

\* the try block: pls is the provider's state, fault = [at, code, detail]
\* makes the at-th provider call fail (at = 0: none fails)
try_block(ts, pls, b, new_id, fault) ==
    LET uris     == uris_of(b.all_eps)
        desc     == ts
        hits     == {k \in 1..Len(pls) : pls[k].name = PlaylistName}
        exists   == hits # {}
        existing == pls[CHOOSE k \in hits : \A j \in hits : k <= j]
        listing  == get_user_playlists_calls(pls)
        reading  == get_playlist_item_uris_calls(existing)
        snapshot == get_playlist_item_uris(existing)
        new      == insert_plan(uris, snapshot)
        script   == IF exists
                    THEN listing \o reading \o prepend_items(existing.id, new)
                            \o update_playlist_details(existing.id, desc)
                    ELSE listing \o create_playlist(new_id, desc)
                            \o set_playlist_items(new_id, uris)
        failed   == fault.at \in 1..Len(script)
        done     == IF failed THEN fault.at - 1 ELSE Len(script)
        msg      == spotify_error(fault.code, script[fault.at].method,
                                  script[fault.at].path, fault.detail)
        read_ok  == exists /\ done >= Len(listing) + Len(reading)
    IN  [outcome  |-> IF ~failed THEN "ok"
                      ELSE IF is_allowlist_error(msg) THEN "exit_allowlist"
                      ELSE "raised",
         playlists |-> apply_all(pls, script, done),
         all_eps  |-> b.all_eps,
         results  |-> b.results,
         existing_uris |-> IF read_ok THEN snapshot ELSE <<>>,
         new_uris |-> IF read_ok THEN new ELSE <<>>,
         before   |-> IF exists
                      THEN [exists |-> TRUE, id |-> existing.id, items |-> existing.items]
                      ELSE [exists |-> FALSE, id |-> <<>>, items |-> <<>>],
         calls    |-> SubSeq(script, 1, IF failed THEN fault.at ELSE Len(script)),
         err      |-> IF failed THEN [code |-> fault.code, msg |-> msg]
                      ELSE [code |-> 0, msg |-> <<>>],
         ncalls   |-> Len(script),
         printed  |-> [found      |-> b.found,
                       prepending |-> IF read_ok /\ new # <<>> THEN Len(new) ELSE -1,
                       no_new     |-> read_ok /\ new = <<>>,
                       prepended  |-> IF failed THEN -1
                                      ELSE prepended_count(b.all_eps, new),
                       url        |-> IF failed THEN <<>>
                                      ELSE IF exists THEN existing.id ELSE new_id]]

\* the whole command, as a record of what it did
refresh(ts, pls, per_topic, strategy, sort_by, responses, new_id, fault) ==
    IF ts = <<>>
    THEN [NoRun EXCEPT !.outcome = "no_topics"] @@ [playlists |-> pls]
    ELSE LET b == batch(ts, per_topic, strategy, sort_by, responses)
         IN  IF b.all_eps = <<>>
             THEN [NoRun EXCEPT !.outcome = "no_episodes", !.results = b.results,
                                !.printed.found = b.found] @@ [playlists |-> pls]
             ELSE try_block(ts, pls, b, new_id, fault)

cmd_refresh(per_topic, strategy, sort_by, responses, new_id, fault) ==
    /\ Len(responses) = (IF topics = <<>> THEN 0 ELSE search_calls(topics, strategy))
    /\ \A i \in 1..Len(responses) :
          Len(responses[i]) <= sent_limit(topics, per_topic, strategy, sort_by)
    /\ \A k \in 1..Len(playlists) : playlists[k].id # new_id
    /\ \E r \in {refresh(topics, playlists, per_topic, strategy, sort_by, responses,
                         new_id, fault)} :
          /\ fault.at <= r.ncalls
          /\ playlists' = r.playlists
          /\ outcome' = r.outcome
          /\ args' = [per_topic |-> per_topic, strategy |-> strategy, sort_by |-> sort_by]
          /\ all_eps' = r.all_eps
          /\ results' = r.results
          /\ searches' = (IF topics = <<>> THEN <<>>
                          ELSE searches_of(topics, per_topic, strategy, sort_by))
          /\ existing_uris' = r.existing_uris
          /\ new_uris' = r.new_uris
          /\ before' = r.before
          /\ calls' = r.calls
          /\ printed' = r.printed
          /\ err' = r.err
    /\ UNCHANGED <<topics, sortVars, histVars>>

\* the command's process ends: its local variables and output are gone
Exit ==
    /\ outcome # "none"
    /\ outcome' = "none"
    /\ args' = NoArgs
    /\ all_eps' = <<>>
    /\ results' = <<>>
    /\ searches' = <<>>
    /\ existing_uris' = <<>>
    /\ new_uris' = <<>>
    /\ before' = NoRun.before
    /\ calls' = <<>>
    /\ printed' = NoRun.printed
    /\ err' = NoRun.err
    /\ UNCHANGED <<topics, playlists, sortVars, histVars>>

----------------------------------------------------------------------------
(* Specification of the commands: topics are added and removed and the     *)
(* playlist is refreshed with arbitrary search responses, every provider   *)
(* call succeeding.                                                        *)

\* the episode the provider returns for URI u
Cat(u) ==
    LET prec == IF u % 3 = 1 THEN "year" ELSE IF u % 3 = 2 THEN "month" ELSE "day"
    IN  Episode(u, 2023 + (u % 2), IF u > 2 THEN 1 ELSE 11, 1, prec, prec)

Uris == {1, 2, 3}

\* an episode without a URI
NoUriEpisode == Episode(NoUri, 2024, 11, 15, "day", "day")

\* what a search response may hold: episodes with and without a URI
Universe == {Cat(u) : u \in Uris} \cup {NoUriEpisode}

Strategies == {"individual", "combined"}
\* the per-topic caps (--max-episodes) the refreshes are run with
PerTopic == {1, 2}
SortModes == {"recency", "relevance"}

RefreshArgs == {<<"a">>, <<" ", "A", "a">>}

IdP == <<"p">>
IdQ == <<"q">>
OtherPlaylist ==
    [name |-> "Other", id |-> <<"o">>, items |-> <<1, 1>>, description |-> <<>>]

TargetPlaylist(id, items) ==
    [name |-> PlaylistName, id |-> id, items |-> items, description |-> <<>>]

NoFault == [at |-> 0, code |-> 0, detail |-> <<>>]

\* the ways to cut the list flat into n consecutive responses
Splits(flat, n) ==
    {[i \in 1..n |-> SubSeq(flat, (IF i = 1 THEN 0 ELSE c[i - 1]) + 1,
                                   IF i = n THEN Len(flat) ELSE c[i])] :
        c \in {c \in [1..(n - 1) -> 0..Len(flat)] :
                  \A i \in 1..(n - 2) : c[i] <= c[i + 1]}}

Init ==
    /\ topics = <<>>
    /\ playlists \in {<<OtherPlaylist>>,
                      <<OtherPlaylist, TargetPlaylist(IdQ, <<NoUri, 2, NoUri>>)>>}
    /\ InitRun
    /\ InitSort
    /\ InitHist

RefreshAddTopic ==
    /\ outcome = "none"
    /\ \E arg \in RefreshArgs : cmd_add_topic(arg)
    /\ UNCHANGED <<TopicsRest, histVars>>

RefreshRemoveTopic ==
    /\ outcome = "none"
    /\ \E arg \in RefreshArgs : cmd_remove_topic(arg)
    /\ UNCHANGED <<TopicsRest, histVars>>

Refresh ==
    /\ outcome = "none"
    /\ \E per_topic \in PerTopic, strategy \in Strategies, sort_by \in SortModes :
          \E flat \in SeqsUpTo(Universe, MaxResults) :
              \E responses \in (IF topics = <<>> THEN {<<>>}
                                ELSE Splits(flat, search_calls(topics, strategy))) :
                  cmd_refresh(per_topic, strategy, sort_by, responses, IdP, NoFault)

Next == RefreshAddTopic \/ RefreshRemoveTopic \/ Refresh \/ Exit

Spec == Init /\ [][Next]_vars

----------------------------------------------------------------------------
(* Properties of refresh.                                                  *)

\* the URIs among playlist items, in order
UrisIn(items) == SelectSeq(items, LAMBDA u : u # NoUri)

Targets == {k \in 1..Len(playlists) : playlists[k].name = PlaylistName}

\* the target playlist (when there is one)
Target == playlists[CHOOSE k \in Targets : \A j \in Targets : k <= j]

Individual == args.strategy = "individual"

(* C1: from a playlist that is absent or free of repeated URIs, after any  *)
(* sequence of successful refresh runs the target playlist holds no URI    *)
(* more than once.                                                         *)
C1_NoRepeatedUri ==
    \A k \in Targets : NoDup(UrisIn(playlists[k].items))

C1_Witness ==
    /\ outcome = "ok"
    /\ before.exists
    /\ Len(UrisIn(before.items)) >= 2
    /\ new_uris # <<>>
    /\ Len(new_uris) < Len(all_eps)
    /\ Len(Target.items) = Len(before.items) + Len(new_uris)

\* the refresh that would run next with the same candidate batch
SecondRun ==
    try_block(topics, playlists,
              [all_eps |-> all_eps, results |-> results, found |-> printed.found],
              IdP, NoFault)

(* C2: dedup idempotence: after a successful refresh, a second refresh     *)
(* with the same candidate batch against the resulting playlist computes   *)
(* an empty insert plan, makes no insert call and leaves the items as      *)
(* they are.                                                               *)
C2_SecondPlanEmpty ==
    outcome = "ok" =>
        /\ SecondRun.outcome = "ok"
        /\ SecondRun.before.exists
        /\ SecondRun.new_uris = <<>>
        /\ \A i \in 1..Len(SecondRun.calls) :
              SecondRun.calls[i].kind \in {"list", "read", "details"}
        /\ \A k \in 1..Len(playlists) : SecondRun.playlists[k].items = playlists[k].items

C2_Witness ==
    /\ outcome = "ok"
    /\ before.exists
    /\ Len(new_uris) >= 2
    /\ Len(UrisIn(before.items)) >= 1
    /\ SecondRun.new_uris = <<>>
    /\ SecondRun.printed.no_new

\* s is a subsequence of t: its elements, in the order they have in t
InOrderOf(s, t) ==
    \A i, j \in 1..Len(s) : i < j => IndexOf(t, s[i]) < IndexOf(t, s[j])

Permuted(s, p) == [i \in 1..Len(s) |-> s[p[i]]]

(* C3: when the playlist exists, the insert plan is exactly the candidate  *)
(* URIs absent from the snapshot, in batch order, whatever the order of    *)
(* the snapshot; none is dropped and none that is present is included.     *)
C3_InsertPlan ==
    (outcome = "ok" /\ before.exists) =>
        LET uris == uris_of(all_eps)
        IN  /\ existing_uris = UrisIn(before.items)
            /\ Range(new_uris) = Range(uris) \ Range(existing_uris)
            /\ NoDup(new_uris)
            /\ InOrderOf(new_uris, uris)
            /\ \A p \in Permutations(1..Len(existing_uris)) :
                  insert_plan(uris, Permuted(existing_uris, p)) = new_uris

C3_Witness ==
    /\ outcome = "ok"
    /\ before.exists
    /\ Len(existing_uris) >= 1
    /\ Len(new_uris) = 2
    /\ Len(all_eps) = 3
    /\ all_eps[2].ep.uri \in Range(existing_uris)

\* the position of URI u in the t-th search result (0 when absent)
At(t, u) == IndexOf(uris_of([i \in 1..Len(results[t]) |-> [ep |-> results[t][i]]]), u)

TopicIndex(topic) == IndexOf(topics, topic)

\* the batch entries of the t-th topic
EntriesOf(t) == {e \in Range(all_eps) : e.topic = topics[t]}

\* topic t came to URI u of its results before it had contributed per_topic
\* entries
ReachedBy(t, u) ==
    /\ At(t, u) > 0
    /\ Cardinality({e \in EntriesOf(t) : At(t, e.ep.uri) < At(t, u)}) < args.per_topic

Surfaced == UNION {{results[t][i].uri : i \in 1..Len(results[t])} : t \in 1..Len(results)} \ {NoUri}

BatchDistinct ==
    /\ NoDup(uris_of(all_eps))
    /\ \A i \in 1..Len(all_eps) : all_eps[i].ep.uri # NoUri

(* C4: in both strategies the candidate batch holds no URI twice and no    *)
(* entry without a URI; in individual mode a URI appears in the batch      *)
(* exactly when some topic came to it before that topic had contributed    *)
(* per_topic entries, and is attributed to the first such topic in         *)
(* configured order (a topic whose results hold it beyond its cap does not *)
(* own it); in combined mode every URI of the result appears once.         *)
C4_Batch ==
    results # <<>> =>
        /\ BatchDistinct
        /\ \A u \in Surfaced :
              LET owners == {t \in 1..Len(results) : ReachedBy(t, u)}
                  entries == {i \in 1..Len(all_eps) : all_eps[i].ep.uri = u}
              IN  IF Individual
                  THEN IF owners = {} THEN entries = {}
                       ELSE /\ Cardinality(entries) = 1
                            /\ \A i \in entries : \A t \in owners :
                                  TopicIndex(all_eps[i].topic) <= t
                            /\ \A i \in entries : TopicIndex(all_eps[i].topic) \in owners
                  ELSE /\ Cardinality(entries) = 1
                       /\ \A i \in entries : all_eps[i].topic = Combined
        /\ Range(uris_of(all_eps)) \subseteq Surfaced

\* C4 as written: in individual mode a URI surfaced by several topics is in
\* the batch exactly once, attributed to the first topic in configured order
\* whose results contained it
C4_FirstTopicOwns ==
    (results # <<>> /\ Individual) =>
        /\ BatchDistinct
        /\ \A u \in Surfaced :
              LET holders == {t \in 1..Len(results) : At(t, u) > 0}
                  entries == {i \in 1..Len(all_eps) : all_eps[i].ep.uri = u}
              IN  Cardinality(holders) >= 2 =>
                     /\ Cardinality(entries) = 1
                     /\ \A i \in entries : \A t \in holders :
                           TopicIndex(all_eps[i].topic) <= t

C4_Witness ==
    /\ outcome = "ok"
    /\ Individual
    /\ Len(topics) = 2
    /\ args.per_topic = 1
    /\ Len(all_eps) = 2
    /\ \E u \in Surfaced :
          /\ At(1, u) > 1
          /\ At(2, u) > 0
          /\ all_eps[2].ep.uri = u
          /\ all_eps[2].topic = topics[2]

\* the URIs the write calls of the run carried
Inserted ==
    Len(Target.items) - Len(before.items)

\* C9: a successful refresh reports as prepended the number of URIs it
\* inserted in that run (the length of the insert plan when the playlist
\* existed, 0 when every candidate was already present)
C9_ReportedCount ==
    outcome = "ok" =>
        /\ printed.prepended = Inserted
        /\ before.exists => printed.prepended = Len(new_uris)
        /\ printed.url = Target.id

----------------------------------------------------------------------------
(* The individual strategy, topic by topic (checked under Spec).           *)

\* the URIs the topics before the t-th contributed to the batch
Earlier(t) ==
    {all_eps[i].ep.uri : i \in {i \in 1..Len(all_eps) : TopicIndex(all_eps[i].topic) < t}}

\* the URIs of the t-th topic's returned results
Returned(t) == [i \in 1..Len(results[t]) |-> results[t][i].uri]

\* the returned URIs of the t-th topic that no earlier topic contributed,
\* each at its first place, in returned order
Fresh(t) ==
    LET r    == Returned(t)
        keep == {i \in 1..Len(r) : /\ r[i] # NoUri
                                   /\ r[i] \notin Earlier(t)
                                   /\ \A j \in 1..(i - 1) : r[j] # r[i]}
        RECURSIVE from(_)
        from(i) == IF i > Len(r) THEN <<>>
                   ELSE (IF i \in keep THEN <<r[i]>> ELSE <<>>) \o from(i + 1)
    IN  from(1)

\* the URIs the t-th topic contributed, in batch order
Contributed(t) == uris_of(SelectSeq(all_eps, LAMBDA e : e.topic = topics[t]))

(* C12: in individual mode there is one search per topic, in configured    *)
(* order, each asking for 2 * per_topic results and returning no more; the *)
(* batch lists the topics' contributions in configured order, and the      *)
(* t-th topic contributes the first min(per_topic, n) of the n distinct    *)
(* URIs of its returned results that no earlier topic contributed, in      *)
(* returned order, and reports that count; a topic with no results         *)
(* contributes nothing and the run goes on without an error.               *)
C12_Individual ==
    (Individual /\ topics # <<>> /\ outcome # "none") =>
        /\ Len(searches) = Len(topics)
        /\ Len(results) = Len(topics)
        /\ Len(printed.found) = Len(topics)
        /\ \A t \in 1..Len(topics) :
              /\ searches[t].query = query_individual(topics[t])
              /\ searches[t].limit = 2 * args.per_topic
              /\ Len(results[t]) <= 2 * args.per_topic
              /\ Contributed(t) = SubSeq(Fresh(t), 1, Min(args.per_topic, Len(Fresh(t))))
              /\ printed.found[t] = Min(args.per_topic, Len(Fresh(t)))
        /\ \A i, j \in 1..Len(all_eps) :
              i <= j => TopicIndex(all_eps[i].topic) <= TopicIndex(all_eps[j].topic)
        /\ \A i \in 1..Len(all_eps) : TopicIndex(all_eps[i].topic) > 0
        /\ outcome = (IF all_eps = <<>> THEN "no_episodes" ELSE "ok")

C12_Witness ==
    /\ Individual
    /\ outcome = "ok"
    /\ Len(topics) = 2
    /\ args.per_topic = 1
    /\ Len(results[1]) = 2
    /\ Len(Fresh(1)) = 2
    /\ Len(Contributed(1)) = 1
    /\ results[2] = <<>>
    /\ Contributed(2) = <<>>
    /\ printed.found = <<1, 0>>

----------------------------------------------------------------------------
(* Specification of refresh with failing provider calls: one topic, and    *)
(* any call of the try block may fail with any of the status codes.        *)

IdX == <<"x", "4", "0", "3">>

StatusCodes == {403, 404, 500}

Details == {<<>>, <<"n", "o">>}

\* the try block makes at most this many calls while a write fits one chunk
\* and a listing one page
FaultAts == 1..4

Faults ==
    {NoFault} \cup {[at |-> k, code |-> c, detail |-> d] :
                       k \in FaultAts, c \in StatusCodes, d \in Details}

FaultUniverse == {Cat(1), Cat(2), NullEpisode}

InitFault ==
    /\ topics = <<<<"a">>>>
    /\ playlists \in {<<OtherPlaylist>>,
                      <<OtherPlaylist, TargetPlaylist(IdX, <<1>>)>>}
    /\ InitRun
    /\ InitSort
    /\ InitHist

RefreshFaulty ==
    /\ outcome = "none"
    /\ \E per_topic \in PerTopic, strategy \in Strategies :
          \E response \in SeqsUpTo(FaultUniverse, MaxResults), fault \in Faults :
              cmd_refresh(per_topic, strategy, "relevance", <<response>>, IdP, fault)

NextFault == RefreshFaulty \/ Exit

SpecFault == InitFault /\ [][NextFault]_vars

Failed == outcome \in {"exit_allowlist", "raised"}

\* C8: a failing provider call ends refresh with the allowlist remediation
\* message exactly when its status is 403, and with the error propagated
\* otherwise, whatever the method, path or playlist id of the call; the
\* failing call is the last call made
C8_AccessDeniedOnly ==
    Failed =>
        /\ outcome = "exit_allowlist" <=> err.code = 403
        /\ \E d \in Details :
              err.msg = spotify_error(err.code, calls[Len(calls)].method,
                                      calls[Len(calls)].path, d)
        /\ \A i, j \in 1..Len(calls) : calls[i] = calls[j] => i = j

----------------------------------------------------------------------------
(* Specification of large refreshes: up to MaxBigTopics topics, each       *)
(* search returning up to PROVIDER_MAX consecutive episodes, so that the   *)
(* writes span several chunks.                                             *)

\* the i-th topic: i letters
BigTopic(i) == [j \in 1..i |-> "a"]

\* the episodes start + 1 .. start + n
Block(start, n) == [i \in 1..n |-> Cat(start + i)]

BigStarts == {0, 30, 260}
LastLens == {1, PROVIDER_MAX}

\* the t-th of n responses: PROVIDER_MAX consecutive episodes each, the last
\* one of length last
BigResponses(n, start, last) ==
    [t \in 1..n |-> Block(start + (t - 1) * PROVIDER_MAX,
                          IF t = n THEN last ELSE PROVIDER_MAX)]

InitBig ==
    /\ \E n \in 1..MaxBigTopics : topics = [i \in 1..n |-> BigTopic(i)]
    /\ playlists \in {<<OtherPlaylist>>,
                      <<OtherPlaylist, TargetPlaylist(IdQ, <<NoUri, 1000, NoUri>>)>>}
    /\ InitRun
    /\ InitSort
    /\ InitHist

RefreshBig ==
    /\ outcome = "none"
    /\ \E start \in BigStarts, last \in LastLens :
          cmd_refresh(PROVIDER_MAX, "individual", "relevance",
                      BigResponses(Len(topics), start, last), IdP, NoFault)

NextBig == RefreshBig \/ Exit

SpecBig == InitBig /\ [][NextBig]_vars

\* the calls of the run that write items, in order
Writes == SelectSeq(calls, LAMBDA c : c.kind \in {"insert", "append", "replace"})

RECURSIVE Flatten(_)
\* the URIs of the write calls, in order
Flatten(cs) == IF cs = <<>> THEN <<>> ELSE cs[1].uris \o Flatten(Tail(cs))

ChunksOf(n) == (n + CHUNK - 1) \div CHUNK

(* C5: when the playlist exists, the insert plan is written in chunks of   *)
(* at most 100, the i-th chunk at position 100 * (i - 1), and the playlist *)
(* is then the insert plan in its order followed by the previous items in  *)
(* theirs.                                                                 *)
C5_PrependOrder ==
    (outcome = "ok" /\ before.exists) =>
        /\ Target.items = new_uris \o before.items
        /\ Len(Writes) = ChunksOf(Len(new_uris))
        /\ Flatten(Writes) = new_uris
        /\ \A i \in 1..Len(Writes) :
              /\ Writes[i].kind = "insert"
              /\ Writes[i].position = CHUNK * (i - 1)
              /\ Len(Writes[i].uris) \in 1..CHUNK

C5_Witness ==
    /\ outcome = "ok"
    /\ before.exists
    /\ Len(new_uris) = 150
    /\ Len(Writes) = 2
    /\ Len(Writes[1].uris) = 100
    /\ Len(Writes[2].uris) = 50
    /\ Target.items = new_uris \o before.items

(* C6: when no playlist has the target name, refresh creates exactly one   *)
(* and writes the whole batch to it in batch order: one replace call with  *)
(* the first chunk of at most 100 URIs, then one append call per further   *)
(* chunk.                                                                  *)
C6_CreateAndFill ==
    (outcome = "ok" /\ ~before.exists) =>
        /\ Cardinality({i \in 1..Len(calls) : calls[i].kind = "create"}) = 1
        /\ Cardinality(Targets) = 1
        /\ Target.items = uris_of(all_eps)
        /\ Len(Writes) = ChunksOf(Len(all_eps))
        /\ Flatten(Writes) = uris_of(all_eps)
        /\ \A i \in 1..Len(Writes) :
              /\ Writes[i].kind = (IF i = 1 THEN "replace" ELSE "append")
              /\ Writes[i].method = (IF i = 1 THEN PUT ELSE POST)
              /\ Len(Writes[i].uris) \in 1..CHUNK
        /\ \A i, j \in 1..Len(calls) :
              (calls[i].kind = "create" /\ calls[j].kind # "list") => i <= j

C6_Witness ==
    /\ outcome = "ok"
    /\ ~before.exists
    /\ Len(all_eps) = 250
    /\ Len(Writes) = 3
    /\ Target.items = uris_of(all_eps)

----------------------------------------------------------------------------
(* Specification of large refreshes with failing provider calls: as        *)
(* SpecBig, and any one call of the try block may fail, so that a write    *)
(* fails at its first, a middle or its last chunk.                         *)

ChunkCodes == {403, 500}

\* the positions of the try block's calls: the listing, then the read and
\* the detail update or the creation, and one call per chunk
ChunkFaultAts == 1..(3 + ChunksOf(PROVIDER_MAX * MaxBigTopics))

ChunkFaults ==
    {NoFault} \cup {[at |-> k, code |-> c, detail |-> <<>>] :
                       k \in ChunkFaultAts, c \in ChunkCodes}

RefreshChunkFaulty ==
    /\ outcome = "none"
    /\ \E last \in LastLens, fault \in ChunkFaults :
          cmd_refresh(PROVIDER_MAX, "individual", "relevance",
                      BigResponses(Len(topics), 0, last), IdP, fault)

NextChunk == RefreshChunkFaulty \/ Exit

SpecChunk == InitBig /\ [][NextChunk]_vars

\* the run ended at a failing chunk write: the failing call is the last of
\* calls
ChunkFailed ==
    /\ Failed
    /\ calls # <<>>
    /\ calls[Len(calls)].kind \in {"insert", "append", "replace"}

\* the chunk writes that succeeded before the failing one
DoneWrites == SubSeq(Writes, 1, Len(Writes) - 1)

\* the URIs the run set out to write
Planned == IF before.exists THEN new_uris ELSE uris_of(all_eps)

C11_Partial ==
    ChunkFailed =>
        LET k == Len(Writes)
        IN  /\ Cardinality(Targets) = 1
            /\ Flatten(DoneWrites) = SubSeq(Planned, 1, CHUNK * (k - 1))
            /\ Target.items = Flatten(DoneWrites)
                                \o (IF before.exists THEN before.items ELSE <<>>)
            /\ \A i, j \in 1..Len(calls) : calls[i] = calls[j] => i = j
            /\ \A i \in 1..Len(calls) : calls[i].kind # "details"
            /\ err.code \in ChunkCodes
            /\ err.msg = spotify_error(err.code, calls[Len(calls)].method,
                                       path_items(Target.id), <<>>)
            /\ printed.prepended = -1
            /\ printed.url = <<>>

\* a run that fails at a chunk write of an existing playlist leaves the
\* description as it was
C11_DescriptionKept ==
    [][(ChunkFailed' /\ before'.exists) =>
          \A k \in 1..Len(playlists) :
              \E j \in 1..Len(playlists') :
                  /\ playlists'[j].id = playlists[k].id
                  /\ playlists'[j].description = playlists[k].description]_vars

(* C11: when the k-th chunk write of a refresh fails, the playlist holds   *)
(* the chunks 1..k-1 of the planned URIs (before the previous items when   *)
(* the playlist existed) and nothing of the later chunks, no call was made *)
(* twice, the description update was not made and the description of an    *)
(* existing playlist is unchanged, and the run ends with the error of the  *)
(* failing call and without a success report.                              *)
C11_ChunkFailure == []C11_Partial /\ C11_DescriptionKept

C11_Witness ==
    /\ ChunkFailed
    /\ before.exists
    /\ Len(new_uris) = 250
    /\ Len(Writes) = 3
    /\ Len(Target.items) = 200 + Len(before.items)
    /\ Target.description = <<>>

C11_WitnessCreate ==
    /\ ChunkFailed
    /\ ~before.exists
    /\ Len(all_eps) = 201
    /\ Len(Writes) = 3
    /\ calls[Len(calls)].kind = "append"
    /\ Len(Target.items) = 200

====
